---- MODULE Spec2Model ----
(***************************************************************************)
(* Quorum-set sanity checking and normalisation (QuorumSetUtils.cpp) and   *)
(* the ballot round timeout (SCPDriver.cpp).                               *)
(*                                                                         *)
(* An SCPQuorumSet is a record                                             *)
(*   [threshold : uint32, validators : Seq(NodeID), innerSets : Seq(QSet)] *)
(* and a NodeID is a natural number, ordered by <.                         *)
(***************************************************************************)
EXTENDS Integers, Sequences, FiniteSets, TLC

VARIABLES
    qSet,         \* the caller's SCPQuorumSet object
    extraChecks,  \* extraChecks argument of the last isQuorumSetSane call
    reason,       \* the caller's `const char*` variable a call may point at
    sane,         \* "true" or "false" as the last isQuorumSetSane call
                  \* returned, "none" before the first call
    atAssert,     \* *reason when the constructor reaches its assertion
    prev,         \* the quorum set as it was before the last normalizeQSet
    idToRemove,   \* idToRemove of the last normalizeQSet call: {} is nullptr
    removals,     \* every NodeID a normalizeQSet call was asked to remove
    calls,        \* number of normalizeQSet calls made on qSet
    roundNumber,  \* the ballot round, a uint32
    elapsed,      \* rounds started since the first one
    timeout,      \* <<ms>> as computeTimeout(roundNumber) returned, else <<>>
    lastTimeout   \* <<ms>> as it returned for the round before, else <<>>

vars == <<qSet, extraChecks, reason, sane, atAssert, prev, idToRemove,
          removals, calls,
          roundNumber, elapsed, timeout, lastTimeout>>

sanityVars == <<extraChecks, reason, sane, atAssert>>
normVars == <<prev, idToRemove, removals, calls>>
timeoutVars == <<roundNumber, elapsed, timeout, lastTimeout>>

-----------------------------------------------------------------------------
(* Bounds of the model *)

MaxNode == 2
MaxThreshold == 2
MaxSize == 3
MaxCalls == 2
MaxRoundSteps == 12

(* Program constants *)

MAX_DEPTH == 2
MAX_VALIDATORS == 1000
MAX_TIMEOUT_SECONDS == 1800

\* A uint32 is held as the value of its 32 bits read as a two's-complement
\* integer: 0 .. 2^31-1 stand for themselves, x >= 2^31 is held as x - 2^32.
INT32_MAX == 1073741823 + 1073741824
INT32_MIN == (-INT32_MAX) - 1

\* a < b on uint32
U32Less(a, b) == IF (a < 0) = (b < 0) THEN a < b ELSE b < 0

\* a - n on uint32, for 0 <= n <= INT32_MAX
U32Sub(a, n) ==
    IF a >= INT32_MIN + n THEN a - n
    ELSE a + ((INT32_MAX - n) + 1) + INT32_MAX + 1

UINT32_MAX == U32Sub(0, 1)

\* a + 1 on uint32
U32Inc(a) == IF a = INT32_MAX THEN INT32_MIN ELSE a + 1

NULL == "nullptr"
None == "none"

DepthMsg == "Cannot have sub-quorums with depth exceeding 2 levels"
ThresholdLowMsg == "The threshold for a quorum must equal at least 1"
ThresholdHighMsg == "The threshold for a quorum exceeds total number of entries"
ExtraCheckMsg == "Extra check: the threshold for a quorum is too low"
DuplicateMsg == "A duplicate node was configured within another quorum"
ZeroMsg == "Number of validator nodes is zero"
TooManyMsg == "Number of validator nodes exceeds the limit of 1000"

-----------------------------------------------------------------------------
(* Quorum sets the caller may hold *)

Nodes == 1..MaxNode

QSet(t, v, i) == [threshold |-> t, validators |-> v, innerSets |-> i]

Range(s) == {s[k] : k \in 1..Len(s)}

\* The size of a tree is the number of its validator entries plus the number
\* of its inner sets, at every level. QSetsOf(b, d): every tree of size b
\* nested at most d levels below its root; InnerSeqsOf(b, d): every sequence
\* of such trees that adds b to the size of its parent.
RECURSIVE QSetsOf(_, _), InnerSeqsOf(_, _)
QSetsOf(b, d) ==
    UNION { { QSet(t, v, i) : t \in 0..MaxThreshold, v \in [1..n -> Nodes],
                              i \in InnerSeqsOf(b - n, d) }
            : n \in 0..b }
InnerSeqsOf(b, d) ==
    IF b = 0 THEN {<<>>}
    ELSE IF d = 0 THEN {}
    ELSE UNION { { <<q>> \o rest : q \in QSetsOf(n, d - 1),
                                   rest \in InnerSeqsOf(b - 1 - n, d) }
                 : n \in 0..(b - 1) }

\* q is a tree of size at most MaxSize, down to one level deeper than allowed
IsSmallSet(q) ==
    \E b \in 0..MaxSize : \E n \in 0..b :
        \E t \in 0..MaxThreshold, v \in [1..n -> Nodes],
           i \in InnerSeqsOf(b - n, MAX_DEPTH + 1) :
            q = QSet(t, v, i)

\* one level holding validators 1..n with threshold n
Flat(n) == QSet(n, [k \in 1..n |-> k], <<>>)

\* q nested n levels below a root; every level above q has threshold 1
RECURSIVE Chain(_, _)
Chain(n, q) == IF n = 0 THEN q ELSE QSet(1, <<>>, <<Chain(n - 1, q)>>)

\* sets at the validator limit, and one that is both too deep and too large
LargeSets ==
    { Flat(MAX_VALIDATORS), Flat(MAX_VALIDATORS + 1),
      QSet(1, Flat(MAX_VALIDATORS + 1).validators,
           <<Chain(MAX_DEPTH, QSet(1, <<>>, <<>>))>>) }

\* sets whose only defect is a node at depth MAX_DEPTH + 1
DeepSets ==
    { Chain(MAX_DEPTH + 1, QSet(1, <<a>>, <<>>)) : a \in Nodes } \cup
    { QSet(t, <<a>>, <<Chain(MAX_DEPTH, QSet(1, <<b>>, <<>>))>>)
        : t \in 1..2, a \in Nodes, b \in Nodes }

\* sets that collapse through two levels, and sets with two unlike inner sets
NestedSets ==
    { QSet(t, <<a>>, <<Chain(1, QSet(1, <<b>>, <<>>))>>)
        : t \in 1..2, a \in Nodes, b \in Nodes } \cup
    { QSet(t, <<>>, << QSet(2, <<a, b>>, <<>>),
                      QSet(u, <<c>>, <<QSet(1, <<d>>, <<>>)>>) >>)
        : t \in 1..2, u \in 1..2, a \in Nodes, b \in 1..(MaxNode + 1),
          c \in {MaxNode + 1}, d \in 1..(MaxNode + 2) }

-----------------------------------------------------------------------------
(* QuorumSetSanityChecker *)

Fail(st, msg) ==
    [ok |-> FALSE, count |-> st.count, known |-> st.known, reason |-> msg]

\* the depth limit taken one level too far
DepthExceededLate(depth) == depth > MAX_DEPTH + 1

DepthExceeded(depth) == depth > MAX_DEPTH

ThresholdTooLow(threshold) == U32Less(threshold, 1)

\* the uint32 is converted to size_t for the comparison
ThresholdTooHigh(threshold, totEntries) == U32Less(totEntries, threshold)

\* size_t vBlockingSize = totEntries - qSet.threshold + 1; it is read only
\* where 1 <= threshold <= totEntries, where the subtraction does not wrap
VBlockingSize(threshold, totEntries) == totEntries - threshold + 1

ExtraCheckFails(extra, threshold, totEntries) ==
    extra /\ threshold < VBlockingSize(threshold, totEntries)

\* the loop inserting the validators into mKnownNodes: the index of the first
\* validator already present (0 if none) and mKnownNodes when the loop ends
InsertValidators(v, known) ==
    LET all == Range(v)
        fresh == Cardinality(all \cup known) = Len(v) + Cardinality(known)
        dups == { j \in 1..Len(v) :
                    v[j] \in known \/ \E k \in 1..(j - 1) : v[k] = v[j] }
        first == IF fresh THEN 0
                 ELSE CHOOSE j \in dups : \A k \in dups : j <= k
    IN [dup |-> first,
        known |-> IF fresh THEN known \cup all
                  ELSE known \cup { v[k] : k \in 1..(first - 1) }]

RECURSIVE checkSanity(_, _, _, _), checkInnerSets(_, _, _, _)
checkSanity(q, depth, st, extra) ==
    IF DepthExceeded(depth) THEN Fail(st, DepthMsg)
    ELSE IF ThresholdTooLow(q.threshold) THEN Fail(st, ThresholdLowMsg)
    ELSE
      LET v == q.validators
          i == q.innerSets
          totEntries == Len(v) + Len(i)
          st1 == [st EXCEPT !.count = st.count + Len(v)]
          ins == InsertValidators(v, st.known)
          st2 == [st1 EXCEPT !.known = ins.known]
      IN IF ThresholdTooHigh(q.threshold, totEntries)
           THEN Fail(st1, ThresholdHighMsg)
         ELSE IF ExtraCheckFails(extra, q.threshold, totEntries)
           THEN Fail(st1, ExtraCheckMsg)
         ELSE IF ins.dup # 0 THEN Fail(st2, DuplicateMsg)
         ELSE checkInnerSets(i, depth, st2, extra)
checkInnerSets(i, depth, st, extra) ==
    IF i = <<>> THEN [st EXCEPT !.ok = TRUE]
    ELSE LET r == checkSanity(Head(i), depth + 1, st, extra)
         IN IF ~r.ok THEN r ELSE checkInnerSets(Tail(i), depth, r, extra)

\* the constructor; slotValue is what *reason holds on entry
QuorumSetSanityChecker(q, extra, slotValue) ==
    LET r == checkSanity(q, 0,
                 [ok |-> TRUE, count |-> 0, known |-> {}, reason |-> slotValue],
                 extra)
    IN IF r.count < 1 THEN [isSane |-> FALSE, reason |-> ZeroMsg]
       ELSE IF r.count > MAX_VALIDATORS
         THEN [isSane |-> FALSE, reason |-> TooManyMsg]
       ELSE [isSane |-> r.ok, reason |-> r.reason]

isQuorumSetSane(q, extra) == QuorumSetSanityChecker(q, extra, NULL).isSane

-----------------------------------------------------------------------------
(* normalizeQSet *)

\* the erase without the threshold update of line 154
RemoveNodeKeepThreshold(q, id) ==
    QSet(q.threshold, SelectSeq(q.validators, LAMBDA n : n \notin id), q.innerSets)

\* lines 149-156: erase every occurrence of the id, lower the threshold by
\* the number erased (uint32 arithmetic)
RemoveNode(q, id) ==
    LET v == SelectSeq(q.validators, LAMBDA n : n \notin id)
    IN QSet(U32Sub(q.threshold, Len(q.validators) - Len(v)), v, q.innerSets)

\* the singleton test without its threshold == 1
IsSingletonAnyThreshold(q) == Len(q.validators) = 1 /\ Len(q.innerSets) = 0

IsSingleton(q) ==
    q.threshold = 1 /\ Len(q.validators) = 1 /\ Len(q.innerSets) = 0

\* lines 177-181
CollapseRoot(q) ==
    IF q.threshold = 1 /\ Len(q.validators) = 0 /\ Len(q.innerSets) = 1
    THEN q.innerSets[Len(q.innerSets)]
    ELSE q

RECURSIVE normalizeQSetSimplify(_, _), MergeInnerSets(_, _, _, _)

\* the loop testing an inner set for a singleton before simplifying it
RECURSIVE MergeInnerSetsTestFirst(_, _, _, _)
MergeInnerSetsTestFirst(v, kept, todo, id) ==
    IF todo = <<>> THEN [validators |-> v, innerSets |-> kept]
    ELSE LET s == normalizeQSetSimplify(Head(todo), id)
         IN IF IsSingleton(Head(todo))
            THEN MergeInnerSetsTestFirst(Append(v, Head(todo).validators[1]),
                                         kept, Tail(todo), id)
            ELSE MergeInnerSetsTestFirst(v, Append(kept, s), Tail(todo), id)

\* the loop erasing a singleton without the emplace_back of line 167
RECURSIVE MergeInnerSetsNoEmplace(_, _, _, _)
MergeInnerSetsNoEmplace(v, kept, todo, id) ==
    IF todo = <<>> THEN [validators |-> v, innerSets |-> kept]
    ELSE LET s == normalizeQSetSimplify(Head(todo), id)
         IN IF IsSingleton(s)
            THEN MergeInnerSetsNoEmplace(v, kept, Tail(todo), id)
            ELSE MergeInnerSetsNoEmplace(v, Append(kept, s), Tail(todo), id)

\* the while loop of lines 160-174: v is the validator list, kept the inner
\* sets before the iterator, todo those from the iterator on
MergeInnerSets(v, kept, todo, id) ==
    IF todo = <<>> THEN [validators |-> v, innerSets |-> kept]
    ELSE LET s == normalizeQSetSimplify(Head(todo), id)
         IN IF IsSingleton(s)
            THEN MergeInnerSets(Append(v, s.validators[1]), kept, Tail(todo), id)
            ELSE MergeInnerSets(v, Append(kept, s), Tail(todo), id)
normalizeQSetSimplify(q, id) ==
    LET r == IF id = {} THEN q ELSE RemoveNode(q, id)
        m == MergeInnerSets(r.validators, <<>>, r.innerSets, id)
    IN CollapseRoot(QSet(r.threshold, m.validators, m.innerSets))

\* the lambda of lines 220-230
CompareKeys(l, r) == IF l < r THEN -1 ELSE IF r < l THEN 1 ELSE 0

RECURSIVE qSetCompareInt(_, _), CompareValidators(_, _), CompareInnerSets(_, _)
\* intLexicographicalCompare with the NodeID comparison
CompareValidators(a, b) ==
    IF a # <<>> /\ b # <<>>
    THEN LET c == CompareKeys(Head(a), Head(b))
         IN IF c # 0 THEN c ELSE CompareValidators(Tail(a), Tail(b))
    ELSE IF a = <<>> /\ b # <<>> THEN -1
    ELSE IF a # <<>> /\ b = <<>> THEN 1
    ELSE 0
\* intLexicographicalCompare with qSetCompareInt
CompareInnerSets(a, b) ==
    IF a # <<>> /\ b # <<>>
    THEN LET c == qSetCompareInt(Head(a), Head(b))
         IN IF c # 0 THEN c ELSE CompareInnerSets(Tail(a), Tail(b))
    ELSE IF a = <<>> /\ b # <<>> THEN -1
    ELSE IF a # <<>> /\ b = <<>> THEN 1
    ELSE 0
qSetCompareInt(l, r) ==
    LET byValidators == CompareValidators(l.validators, r.validators)
        byInnerSets == CompareInnerSets(l.innerSets, r.innerSets)
    IN IF byValidators # 0 THEN byValidators
       ELSE IF byInnerSets # 0 THEN byInnerSets
       ELSE IF U32Less(l.threshold, r.threshold) THEN -1
       ELSE IF l.threshold = r.threshold THEN 0 ELSE 1

\* std::sort of the validators, by operator< of NodeID
SortValidators(v) == SortSeq(v, LAMBDA l, r : l < r)

\* the inner sets left in the order given
SortInnerSetsSkipped(i) == i

\* std::sort of the inner sets, by qSetCompareInt(l, r) < 0
SortInnerSets(i) == SortSeq(i, LAMBDA l, r : qSetCompareInt(l, r) < 0)

RECURSIVE normalizeQuorumSetReorder(_)
normalizeQuorumSetReorder(q) ==
    QSet(q.threshold,
         SortValidators(q.validators),
         SortInnerSets([k \in 1..Len(q.innerSets) |->
                           normalizeQuorumSetReorder(q.innerSets[k])]))

normalizeQSet(q, id) == normalizeQuorumSetReorder(normalizeQSetSimplify(q, id))

-----------------------------------------------------------------------------
(* SCPDriver::computeTimeout *)

\* the std::chrono::seconds returned as std::chrono::milliseconds
SecondsToMilliseconds(seconds) == seconds * 1000

\* the seconds returned as that many milliseconds
computeTimeoutUnconverted(r) ==
    IF U32Less(MAX_TIMEOUT_SECONDS, r) THEN MAX_TIMEOUT_SECONDS ELSE r

\* roundNumber > MAX_TIMEOUT_SECONDS compares as unsigned; (int)roundNumber
\* of a uint32 is the two's-complement reading it is held as
computeTimeout(r) ==
    LET timeoutInSeconds == IF U32Less(MAX_TIMEOUT_SECONDS, r)
                            THEN MAX_TIMEOUT_SECONDS
                            ELSE r
    IN SecondsToMilliseconds(timeoutInSeconds)

-----------------------------------------------------------------------------
(* The caller reordering the entries of a quorum set *)

Swap(s, a, b) == [s EXCEPT ![a] = s[b], ![b] = s[a]]

\* the trees one exchange of two validators, or of two inner sets, of one
\* node away from q
RECURSIVE Swaps(_)
Swaps(q) ==
    { QSet(q.threshold, Swap(q.validators, a, b), q.innerSets)
        : a \in 1..Len(q.validators), b \in 1..Len(q.validators) } \cup
    { QSet(q.threshold, q.validators, Swap(q.innerSets, a, b))
        : a \in 1..Len(q.innerSets), b \in 1..Len(q.innerSets) } \cup
    UNION { { QSet(q.threshold, q.validators, [q.innerSets EXCEPT ![k] = s])
                : s \in Swaps(q.innerSets[k]) }
            : k \in 1..Len(q.innerSets) }

-----------------------------------------------------------------------------
(* Actions *)

\* isQuorumSetSane(qSet, extra, passReason ? &reason : nullptr)
IsQuorumSetSane(extra, passReason) ==
    LET r == QuorumSetSanityChecker(qSet, extra,
                                    IF passReason THEN reason ELSE NULL)
    IN /\ sane' = (IF r.isSane THEN "true" ELSE "false")
       /\ atAssert' = r.reason
       /\ reason' = IF passReason THEN r.reason ELSE reason
       /\ extraChecks' = extra
       /\ UNCHANGED <<qSet, normVars, timeoutVars>>

\* normalizeQSet(qSet, id = {} ? nullptr : &n), id = {n}
NormalizeQSet(id) ==
    /\ calls < MaxCalls
    /\ prev' = qSet
    /\ qSet' = normalizeQSet(qSet, id)
    /\ idToRemove' = id
    /\ removals' = removals \cup id
    /\ calls' = calls + 1
    /\ UNCHANGED <<sanityVars, timeoutVars>>

\* the caller lists the same entries in another order
Permute ==
    /\ calls = 0
    /\ qSet' \in Swaps(qSet)
    /\ UNCHANGED <<sanityVars, timeoutVars, normVars>>

InitRest ==
    /\ extraChecks = FALSE
    /\ reason = NULL
    /\ sane = None
    /\ atAssert = NULL
    /\ prev = qSet
    /\ idToRemove = {}
    /\ removals = {}
    /\ calls = 0
    /\ elapsed = 0
    /\ timeout = <<>>
    /\ lastTimeout = <<>>

SanityInputs == LargeSets \cup DeepSets \cup NestedSets

InitSanity ==
    /\ IsSmallSet(qSet) \/ qSet \in SanityInputs
    /\ roundNumber = 0
    /\ InitRest

NextSanity == \E extra \in BOOLEAN, passReason \in BOOLEAN :
                  IsQuorumSetSane(extra, passReason)

SpecSanity == InitSanity /\ [][NextSanity]_vars

IdArgs == {{}} \cup {{n} : n \in Nodes}

NormalizeInputs == DeepSets \cup NestedSets

InitNormalize ==
    /\ IsSmallSet(qSet) \/ qSet \in NormalizeInputs
    /\ roundNumber = 0
    /\ InitRest

NextNormalize == Permute \/ \E id \in IdArgs : NormalizeQSet(id)

SpecNormalize == InitNormalize /\ [][NextNormalize]_vars

\* the ballot protocol asks for the timeout of its current round
ComputeTimeout ==
    /\ timeout' = <<computeTimeout(roundNumber)>>
    /\ UNCHANGED <<qSet, sanityVars, normVars, roundNumber, elapsed,
                   lastTimeout>>

\* the ballot protocol moves to the next round
NextRound ==
    /\ elapsed < MaxRoundSteps
    /\ roundNumber # UINT32_MAX
    /\ roundNumber' = U32Inc(roundNumber)
    /\ elapsed' = elapsed + 1
    /\ lastTimeout' = timeout
    /\ timeout' = <<>>
    /\ UNCHANGED <<qSet, sanityVars, normVars>>

\* rounds from 0, across the cap, across 2^31 and up to 2^32 - 1
RoundStarts ==
    { 0, MAX_TIMEOUT_SECONDS - MaxRoundSteps \div 2,
      INT32_MAX - MaxRoundSteps \div 2, UINT32_MAX - MaxRoundSteps \div 2 }

InitTimeout ==
    /\ qSet = Flat(1)
    /\ roundNumber \in RoundStarts
    /\ InitRest

SpecTimeout == InitTimeout /\ [][ComputeTimeout \/ NextRound]_vars

-----------------------------------------------------------------------------
(* What the properties speak of *)

\* the levels below the root of q
RECURSIVE Height(_), HeightSeq(_)
Height(q) == IF q.innerSets = <<>> THEN 0 ELSE 1 + HeightSeq(q.innerSets)
HeightSeq(s) ==
    IF s = <<>> THEN 0
    ELSE LET h == Height(Head(s))
             t == HeightSeq(Tail(s))
         IN IF h > t THEN h ELSE t

\* every quorum set of the tree, the root included
RECURSIVE SubSets(_)
SubSets(q) ==
    {q} \cup UNION { SubSets(q.innerSets[k]) : k \in 1..Len(q.innerSets) }

\* the validators of the whole tree, in traversal order
RECURSIVE AllValidators(_), AllValidatorsSeq(_)
AllValidators(q) == q.validators \o AllValidatorsSeq(q.innerSets)
AllValidatorsSeq(s) ==
    IF s = <<>> THEN <<>> ELSE AllValidators(Head(s)) \o AllValidatorsSeq(Tail(s))

Count(s, n) == Cardinality({ k \in 1..Len(s) : s[k] = n })

Occurrences(q, n) == Count(AllValidators(q), n)

Entries(q) == Len(q.validators) + Len(q.innerSets)

\* the invariants of a quorum set, stated on the tree
InvariantsHold(q, extra) ==
    /\ Height(q) <= 2
    /\ \A n \in SubSets(q) : 1 <= n.threshold /\ n.threshold <= Entries(n)
    /\ Cardinality(Range(AllValidators(q))) = Len(AllValidators(q))
    /\ 1 <= Len(AllValidators(q)) /\ Len(AllValidators(q)) <= 1000
    /\ extra => \A n \in SubSets(q) : n.threshold >= Entries(n) - n.threshold + 1

\* the reason the traversal stops with, or NULL if it finds no violation
TraversalReason(q, extra) ==
    LET r == checkSanity(q, 0,
                 [ok |-> TRUE, count |-> 0, known |-> {}, reason |-> NULL], extra)
    IN IF r.ok THEN NULL ELSE r.reason

-----------------------------------------------------------------------------
(* Properties of isQuorumSetSane, under SpecSanity *)

\* C1: isQuorumSetSane returns true if and only if no node lies deeper than 2,
\* every threshold is between 1 and its number of entries, no NodeID occurs
\* twice in the tree, the tree holds 1 to 1000 validators and, with
\* extraChecks, every threshold is at least entries - threshold + 1.
C1_SaneIffInvariants ==
    sane # None => ((sane = "true") <=> InvariantsHold(qSet, extraChecks))

\* a set of exactly 1000 validators was checked with extraChecks and is sane
C1_Witness ==
    sane = "true" /\ extraChecks /\ Len(AllValidators(qSet)) = 1000

\* C2: a quorum set with a node at depth 3 or deeper is reported insane with
\* the depth reason, whatever its other fields and extraChecks are.
C2_DepthReason ==
    (sane # None /\ Height(qSet) >= 3) => (sane = "false" /\ atAssert = DepthMsg)

\* C3: a false result carries the reason of the first violation the traversal
\* finds; the validator-count reasons appear only if the traversal finds none.
C3_FirstViolationReason ==
    sane = "false" =>
        LET first == TraversalReason(qSet, extraChecks)
        IN IF first # NULL THEN atAssert = first
           ELSE atAssert \in {ZeroMsg, TooManyMsg}

\* C4: on return exactly one holds: the result is true, or a reason is set
\* (the assertion of the constructor).
C4_ResultXorReason ==
    sane # None => ((sane = "true") # (atAssert # NULL))

-----------------------------------------------------------------------------
(* Properties of normalizeQSet, under SpecNormalize *)

\* C5: normalizing a second time, with no node to remove in either call,
\* leaves the tree as the first call left it; this holds of every quorum
\* set, the sane ones among them.
C5_NormalizeIdempotent ==
    (calls >= 2 /\ removals = {}) => qSet = prev

\* a sane set with inner sets was normalized twice
C5_Witness ==
    /\ calls = 2
    /\ removals = {}
    /\ isQuorumSetSane(prev, FALSE)
    /\ Len(prev.innerSets) > 0

\* C6: a quorum set and any reordering of its validator lists and inner-set
\* lists normalize to the same tree (prev is the set as first held, qSet the
\* same set after the exchanges made so far).
C6_PermutationInvariant ==
    calls = 0 => \A id \in IdArgs : normalizeQSet(qSet, id) = normalizeQSet(prev, id)

\* the inner sets and the validators of an inner set were both reordered
C6_Witness ==
    /\ calls = 0
    /\ Len(qSet.innerSets) = 2
    /\ qSet.innerSets[1] # prev.innerSets[1]
    /\ \E k \in 1..2 : \E j \in 1..2 :
          /\ qSet.innerSets[k] # prev.innerSets[j]
          /\ normalizeQSet(qSet.innerSets[k], {}) = normalizeQSet(prev.innerSets[j], {})
          /\ qSet.innerSets[3 - k] # prev.innerSets[j]

\* the uint32 held as enc is the number n (n below 2^31)
U32Is(enc, n) == n >= 0 /\ enc = n

\* the removal of lines 149-156 done at every node of q, and nothing else
RECURSIVE RemoveEverywhere(_, _)
RemoveEverywhere(q, id) ==
    LET r == RemoveNode(q, id)
    IN QSet(r.threshold, r.validators,
            [k \in 1..Len(r.innerSets) |-> RemoveEverywhere(r.innerSets[k], id)])

\* a is b with x taken out of the one validator list holding it and the
\* threshold of that node lower by exactly 1, all else as it was
RECURSIVE RemovedOnce(_, _, _)
RemovedOnce(b, a, x) ==
    /\ Len(a.innerSets) = Len(b.innerSets)
    /\ IF x \in Range(b.validators)
       THEN /\ a.validators = SelectSeq(b.validators, LAMBDA n : n # x)
            /\ U32Is(a.threshold, b.threshold - 1)
            /\ a.innerSets = b.innerSets
       ELSE /\ a.validators = b.validators
            /\ a.threshold = b.threshold
            /\ \A k \in 1..Len(b.innerSets) :
                  RemovedOnce(b.innerSets[k], a.innerSets[k], x)

\* the threshold of the node whose validator list holds x
HolderThreshold(q, x) ==
    (CHOOSE n \in SubSets(q) : x \in Range(n.validators)).threshold

SingletonSet(q) ==
    q.threshold = 1 /\ Len(q.validators) = 1 /\ q.innerSets = <<>>

NoSingletonInner(q) ==
    \A n \in SubSets(q) : \A k \in 1..Len(n.innerSets) : ~SingletonSet(n.innerSets[k])

Sorted(v) == \A k \in 1..(Len(v) - 1) : v[k] <= v[k + 1]

\* indices of the inner sets of q that are singletons as they stand
Singles(q) == { k \in 1..Len(q.innerSets) : SingletonSet(q.innerSets[k]) }

Example == QSet(2, <<1>>, <<QSet(1, <<2>>, <<>>)>>)
ExampleNormalized == QSet(2, <<1, 2>>, <<>>)

C10_NormalizeKeepsSane ==
    (calls >= 1 /\ idToRemove = {}) =>
        \A e \in BOOLEAN : isQuorumSetSane(prev, e) => isQuorumSetSane(qSet, e)

\* a set sane under the extra checks lost an inner set to a collapse
C10_Witness ==
    /\ calls = 1
    /\ idToRemove = {}
    /\ isQuorumSetSane(prev, TRUE)
    /\ Len(qSet.innerSets) < Len(prev.innerSets)
    /\ Height(prev) = 2

-----------------------------------------------------------------------------
(* Properties of computeTimeout, under SpecTimeout *)

\* min(r, 1800) of the uint32 held as r
CappedSeconds(r) == IF r < 0 \/ r > 1800 THEN 1800 ELSE r

====
